---- MODULE Spec2Model ----
(***************************************************************************)
(* The todo API of task6FirebaseTodoApp: the route handlers of             *)
(* /api/todos and /api/todos/{id} over the "todos" collection of the       *)
(* document store, with requests of several callers interleaved at the     *)
(* handlers' await points on the store.                                    *)
(***************************************************************************)
EXTENDS Integers, Sequences, FiniteSets, TLC

\* ---------------------------------------------------------------- bounds
MaxDocs == 2        \* document keys the store hands out
MaxTime == 1        \* the server clock runs 0..MaxTime
MaxInFlight == 2    \* PUT/DELETE requests suspended between two store calls
MaxReq == 3         \* requests admitted in one behaviour
MaxRefresh == 2     \* times the identity provider renews a user's ID token

\* ------------------------------------------------------------- JS values
\* A JavaScript / JSON / store value: its kind, a text and a number.
V(k, s, n) == [k |-> k, s |-> s, n |-> n]
Undef == V("undefined", "", 0)          \* a missing key
Null == V("null", "", 0)
Bool(b) == V("boolean", "", IF b THEN 1 ELSE 0)
Str(s) == V("string", s, 0)
IsoStr(t) == V("string", "iso", t)      \* the ISO-8601 text of instant t
KeyStr(d) == V("string", "key", d)      \* the text of document key d
DateV(t) == V("date", "", t)            \* a JS Date
InvalidDate == V("date", "invalid", 0)  \* new Date(<unparsable>)
Ts(t) == V("timestamp", "", t)          \* a store-native Timestamp
Sentinel == V("sentinel", "serverTimestamp", 0)
MapV == V("map", "x", 0)                \* a nested object {x: ...}

\* JS truthiness (the values a body or a document can hold here).
Truthy(v) ==
    /\ v.k \notin {"undefined", "null"}
    /\ v # Str("")
    /\ v # Bool(FALSE)

\* new Date(v) for a truthy v
NewDate(v) == IF v.k = "string" /\ v.s = "iso" THEN DateV(v.n) ELSE InvalidDate

\* JSON.stringify of a value inside NextResponse.json: a Date becomes its ISO
\* text (Date.prototype.toJSON); everything else keeps its shape.
ToJSON(v) == IF v.k = "date" /\ v.s # "invalid" THEN IsoStr(v.n) ELSE v

\* ------------------------------------------------------------- identity
Users == {"u1", "u2"}
\* verifyIdToken: the tokens the identity provider accepts and their uid
ValidTokens == {"t1", "t2"}
verifyIdToken(tok) == IF tok = "t1" THEN "u1" ELSE "u2"
NoUid == "none"

\* An Authorization header as authHeader.split(" ") yields it; <<>> is an
\* absent header.
Headers ==
    { <<>>, <<"Basic", "t1">>, <<"Bearer", "expired">>,
      <<"Bearer", "t1">>, <<"Bearer", "t2">> }

\* A variant that takes the second word of any header for the token.
getAuthenticatedUserUid_anyScheme(hdr) ==
    IF Len(hdr) < 2 THEN NoUid
    ELSE IF hdr[2] \in ValidTokens THEN verifyIdToken(hdr[2])
    ELSE NoUid

getAuthenticatedUserUid(hdr) ==
    IF Len(hdr) < 2 \/ hdr[1] # "Bearer" THEN NoUid
    ELSE IF hdr[2] \in ValidTokens THEN verifyIdToken(hdr[2])
    ELSE NoUid

\* ------------------------------------------------------------ documents
DocKeys == 1..MaxDocs
DocFields ==
    {"userId", "text", "completed", "createdAt", "updatedAt", "dueDate",
     "priority", "id"}
\* The keys of a request body: the document's fields and the field path
\* "userId.x", which DocumentReference.update reads as a nested field.
BodyFields == DocFields \cup {"userId.x"}

EmptyBody == [f \in BodyFields |-> Undef]
With(b, f, v) == [b EXCEPT ![f] = v]

NewText == With(EmptyBody, "text", Str("a"))

\* Bodies of POST: accepted ones (the second carries keys the handler does
\* not read), ones the validation refuses, and one the store refuses.
PostBodies ==
    { NewText,
      With(With(NewText, "userId", Str("u2")), "id", Str("evil")),
      With(With(With(NewText, "completed", Bool(TRUE)), "dueDate", IsoStr(1)),
           "priority", Str("high")),
      EmptyBody,
      With(EmptyBody, "text", Str("")),
      With(NewText, "completed", Str("yes")),
      With(NewText, "completed", Null),
      With(NewText, "dueDate", Str("garbage")) }

\* Bodies of PUT.
PutBodies ==
    { EmptyBody,
      With(With(EmptyBody, "text", Str("")), "completed", Str("yes")),
      With(EmptyBody, "dueDate", Null),
      With(EmptyBody, "dueDate", IsoStr(1)),
      With(EmptyBody, "dueDate", Str("garbage")),
      With(With(EmptyBody, "userId", Str("u2")), "completed", Bool(TRUE)),
      With(EmptyBody, "userId.x", Str("u2")),
      With(EmptyBody, "id", Str("evil")),
      With(EmptyBody, "createdAt", Str("junk")),
      With(EmptyBody, "createdAt", Null) }

\* --------------------------------------------------------------- store
\* What the store keeps for a value it is handed; now is the server clock.
ToStore(v, now) ==
    IF v.k = "date" THEN Ts(v.n)
    ELSE IF v.k = "sentinel" THEN Ts(now)
    ELSE v

\* The store refuses a document that holds an Invalid Date.
Storable(data) == \A f \in DOMAIN data : data[f] # InvalidDate

\* collection.add(data): the document stored under a fresh key
FirestoreAdd(data, now) ==
    [f \in DocFields |-> ToStore(data[f], now)]

\* docRef.update(updates) on an existing document: the named fields are
\* replaced, the others kept; "userId.x" replaces a non-map userId by a map.
FirestoreUpdate(doc, updates, now) ==
    [f \in DocFields |->
        IF updates[f] # Undef THEN ToStore(updates[f], now)
        ELSE IF f = "userId" /\ updates["userId.x"] # Undef THEN MapV
        ELSE doc[f]]

\* docRef.update(updates) fails on a document that does not exist and on a
\* value the store refuses.
UpdateFails(st, d, updates) == d \notin DOMAIN st \/ ~Storable(updates)

\* The collection after docRef.update(updates) at instant t.
UpdateDoc(st, d, updates, t) ==
    [st EXCEPT ![d] = FirestoreUpdate(st[d], updates, t)]

\* A variant that leaves the document in place.
FirestoreDelete_kept(st, d) == st

\* docRef.delete()
FirestoreDelete(st, d) == [k \in DOMAIN st \ {d} |-> st[k]]

\* ------------------------------------------------------------ responses
TimeFields == {"createdAt", "updatedAt", "dueDate"}
RespFields == DocFields \cup {"docKey"}

\* x ? x.toDate().toISOString() : null  -- toDate exists on a Timestamp only
CanConvert(v) == Truthy(v) => v.k = "timestamp"
ConvertTimestamp(v) == IF Truthy(v) THEN IsoStr(v.n) ELSE Null

\* The response object { id, ...data, createdAt, updatedAt, dueDate } of
\* read-one, update-one and list: the spread of data comes after id, so a
\* stored "id" field replaces the key. docKey is not part of the response: it
\* records the key the document is stored under.
CanSerialize(data) == \A f \in TimeFields : CanConvert(data[f])
Serialize(key, data) ==
    [f \in RespFields |->
        IF f = "docKey" THEN KeyStr(key)
        ELSE IF f \in TimeFields THEN ConvertTimestamp(data[f])
        ELSE IF f = "id" THEN (IF data.id # Undef THEN data.id ELSE KeyStr(key))
        ELSE data[f]]

\* The response object { id: docRef.id, ...newTodoData } of create, as
\* JSON.stringify writes it.
SerializeNew(key, newTodoData) ==
    [f \in RespFields |->
        IF f \in {"docKey", "id"} THEN KeyStr(key) ELSE ToJSON(newTodoData[f])]

\* ---------------------------------------------------------------- state
VARIABLES
    store,      \* the "todos" collection: document key -> document data
    nextKey,    \* the next key collection.add assigns
    now,        \* the store's clock at its latest write (serverTimestamp())
    pending,    \* slot -> a PUT or DELETE suspended after its ownership check
    served,     \* requests admitted so far
    creator,    \* document key -> the userId the document was created with
    deleted,    \* keys a DELETE answered 204 for
    last        \* the most recent handler step and its response, if any

vars == <<store, nextKey, now, pending, served, creator, deleted, last>>

\* The browser: the identity provider client and the fetch helper.
VARIABLES
    currentUser,    \* auth.currentUser: a signed-in user, or NoUser
    idToken,        \* user -> the number of the ID token getIdToken() gives
    fetchCall,      \* the call of fetchAuthenticated: its position and locals
    request         \* the HTTP request that call has issued, or NoRequest

clientVars == <<currentUser, idToken, fetchCall, request>>

NoUser == "none"
NoRequest == [method |-> "none", headers |-> << >>]

\* Header values: absent, a text, or "Bearer <the n-th ID token of user u>".
NoHeader == [scheme |-> "absent", u |-> "", n |-> 0]
Text(s) == [scheme |-> s, u |-> "", n |-> 0]
Bearer(u, n) == [scheme |-> "Bearer", u |-> u, n |-> n]

HeaderNames == {"Content-Type", "Authorization"}

\* The options callers hand to fetchAuthenticated: a method and, possibly,
\* headers of their own.
NoHeaders == [h \in HeaderNames |-> NoHeader]
CallOptions ==
    { [method |-> m, headers |-> hs] :
        m \in {"GET", "POST"},
        hs \in { NoHeaders,
                 [NoHeaders EXCEPT !["Content-Type"] = Text("text/plain")],
                 [NoHeaders EXCEPT !["Authorization"] = Text("Basic abc")],
                 [NoHeaders EXCEPT !["Authorization"] = Bearer("u2", 0)] } }

\* A variant where the caller's headers are spread last.
MergeHeaders_callerLast(callerHeaders, token) ==
    [h \in HeaderNames |->
        IF callerHeaders[h] # NoHeader THEN callerHeaders[h]
        ELSE IF h = "Authorization" THEN token
        ELSE Text("application/json")]

\* { "Content-Type": "application/json", ...options.headers,
\*   Authorization: `Bearer ${idToken}` }
MergeHeaders(callerHeaders, token) ==
    [h \in HeaderNames |->
        IF h = "Authorization" THEN token
        ELSE IF callerHeaders[h] # NoHeader THEN callerHeaders[h]
        ELSE Text("application/json")]

Resting == [pc |-> "idle", user |-> NoUser, options |-> [method |-> "GET", headers |-> NoHeaders],
            result |-> "none"]

ClientInit ==
    /\ currentUser = NoUser
    /\ idToken = [u \in Users |-> 0]
    /\ fetchCall = Resting
    /\ request = NoRequest

Slots == 1..MaxInFlight
Idle == [op |-> "idle", hdr |-> <<>>, key |-> 0, pc |-> "idle", body |-> EmptyBody]

\* A handler step: status 0 while the request has not answered yet.
Event(op, step, hdr, key, body, status, payload) ==
    [op |-> op, step |-> step, hdr |-> hdr, key |-> key, body |-> body,
     status |-> status, payload |-> payload]

Init ==
    /\ store = << >>
    /\ nextKey = 1
    /\ now = 0
    /\ pending = [s \in Slots |-> Idle]
    /\ served = 0
    /\ creator = << >>
    /\ deleted = {}
    /\ last = Event("none", "none", <<>>, 0, EmptyBody, 0, <<>>)
    /\ ClientInit

FreeSlots == {s \in Slots : pending[s].op = "idle"}
FirstFree == CHOOSE s \in FreeSlots : \A t \in FreeSlots : s <= t

\* The instants the store's clock can show at the next write: it never
\* runs backwards.
Clock == now..MaxTime

\* The ids a request path can name: the keys assigned so far and one key that
\* was never assigned.
PathKeys == 1..(IF nextKey <= MaxDocs THEN nextKey ELSE MaxDocs)

\* ------------------------------------------------- POST /api/todos
\* const { text, dueDate, completed = false, priority } = await request.json()
Completed(body) == IF body.completed = Undef THEN Bool(FALSE) ELSE body.completed

\* A variant that validates text only.
ValidTodo_textOnly(body) == Truthy(body.text)

ValidTodo(body) == Truthy(body.text) /\ Completed(body).k = "boolean"

\* A variant that lets the body's userId through.
NewTodoData_bodyOwner(body, uid) ==
    [f \in DocFields |->
        IF f = "text" THEN body.text
        ELSE IF f = "completed" THEN Completed(body)
        ELSE IF f = "userId" THEN (IF body.userId # Undef THEN body.userId ELSE Str(uid))
        ELSE IF f = "createdAt" THEN Sentinel
        ELSE IF f = "dueDate" /\ Truthy(body.dueDate) THEN NewDate(body.dueDate)
        ELSE IF f = "priority" /\ Truthy(body.priority) THEN body.priority
        ELSE Undef]

NewTodoData(body, uid) ==
    [f \in DocFields |->
        IF f = "text" THEN body.text
        ELSE IF f = "completed" THEN Completed(body)
        ELSE IF f = "userId" THEN Str(uid)
        ELSE IF f = "createdAt" THEN Sentinel
        ELSE IF f = "dueDate" /\ Truthy(body.dueDate) THEN NewDate(body.dueDate)
        ELSE IF f = "priority" /\ Truthy(body.priority) THEN body.priority
        ELSE Undef]

\* The body is read after the token is verified; t is the store's clock when
\* the document is written.
POST(hdr) ==
    LET uid == getAuthenticatedUserUid(hdr)
        Answer(body, status) ==
            /\ last' = Event("POST", "respond", hdr, 0, body, status, <<>>)
            /\ UNCHANGED <<store, nextKey, now, creator>>
    IN  /\ served < MaxReq
        /\ served' = served + 1
        /\ UNCHANGED <<pending, deleted>>
        /\ IF uid = NoUid THEN Answer(EmptyBody, 401)
           ELSE \E body \in PostBodies :
                LET data == NewTodoData(body, uid)
                IN  IF ~ValidTodo(body) THEN Answer(body, 400)
                    ELSE IF ~Storable(data) THEN Answer(body, 500)
                    ELSE \E t \in Clock :
                         /\ nextKey <= MaxDocs
                         /\ now' = t
                         /\ store' = (nextKey :> FirestoreAdd(data, t)) @@ store
                         /\ creator' = (nextKey :> FirestoreAdd(data, t).userId) @@ creator
                         /\ nextKey' = nextKey + 1
                         /\ last' = Event("POST", "respond", hdr, nextKey, body, 201,
                                          <<SerializeNew(nextKey, data)>>)

\* -------------------------------------------------- GET /api/todos
\* The store's order of the values a createdAt can hold: null, then
\* timestamps by instant, then anything else.
OrderRank(v) ==
    IF v.k = "null" THEN 0
    ELSE IF v.k = "timestamp" THEN 1 + v.n
    ELSE MaxTime + 2

\* A variant that orders oldest first.
Before_asc(st, d1, d2) ==
    \/ OrderRank(st[d1].createdAt) < OrderRank(st[d2].createdAt)
    \/ /\ OrderRank(st[d1].createdAt) = OrderRank(st[d2].createdAt)
       /\ d1 < d2

\* d1 comes before d2 in orderBy("createdAt", "desc"); equal values are
\* ordered by key, in the same direction.
Before(st, d1, d2) ==
    \/ OrderRank(st[d1].createdAt) > OrderRank(st[d2].createdAt)
    \/ /\ OrderRank(st[d1].createdAt) = OrderRank(st[d2].createdAt)
       /\ d1 > d2

RECURSIVE OrderByDesc(_, _)
OrderByDesc(st, keys) ==
    IF keys = {} THEN <<>>
    ELSE LET first == CHOOSE d \in keys : \A e \in keys \ {d} : Before(st, d, e)
         IN  <<first>> \o OrderByDesc(st, keys \ {first})

\* .where("userId", "==", uid).orderBy("createdAt", "desc").get(); a document
\* without the ordering field is not in the result.
Query(st, uid) ==
    OrderByDesc(st, {d \in DOMAIN st : /\ st[d].userId = Str(uid)
                                       /\ st[d].createdAt # Undef})

GET_todos(hdr) ==
    LET uid == getAuthenticatedUserUid(hdr)
        docs == Query(store, uid)
    IN  /\ served < MaxReq
        /\ served' = served + 1
        /\ UNCHANGED <<store, nextKey, now, pending, creator, deleted>>
        /\ IF uid = NoUid
           THEN last' = Event("LIST", "respond", hdr, 0, EmptyBody, 401, <<>>)
           ELSE IF \E i \in 1..Len(docs) : ~CanSerialize(store[docs[i]])
           THEN last' = Event("LIST", "respond", hdr, 0, EmptyBody, 500, <<>>)
           ELSE last' = Event("LIST", "respond", hdr, 0, EmptyBody, 200,
                    [i \in 1..Len(docs) |-> Serialize(docs[i], store[docs[i]])])

\* ---------------------------------------------- /api/todos/{id}
\* A variant that does not compare the owner.
checkTodoOwnership_anyOwner(st, todoId, userId) ==
    IF todoId \notin DOMAIN st THEN "missing" ELSE "owned"

\* checkTodoOwnership: what one read of the document tells the handler
checkTodoOwnership(st, todoId, userId) ==
    IF todoId \notin DOMAIN st THEN "missing"
    ELSE IF st[todoId].userId # Str(userId) THEN "foreign"
    ELSE "owned"

\* The status of the early returns shared by GET, PUT and DELETE; 0 when the
\* handler goes on.
EarlyStatus(st, hdr, key) ==
    LET uid == getAuthenticatedUserUid(hdr)
    IN  IF uid = NoUid THEN 401
        ELSE IF checkTodoOwnership(st, key, uid) = "missing" THEN 404
        ELSE IF checkTodoOwnership(st, key, uid) = "foreign" THEN 403
        ELSE 0

GET(hdr, key) ==
    LET early == EarlyStatus(store, hdr, key)
    IN  /\ served < MaxReq
        /\ served' = served + 1
        /\ UNCHANGED <<store, nextKey, now, pending, creator, deleted>>
        /\ IF early # 0
           THEN last' = Event("GET", "respond", hdr, key, EmptyBody, early, <<>>)
           ELSE IF ~CanSerialize(store[key])
           THEN last' = Event("GET", "respond", hdr, key, EmptyBody, 500, <<>>)
           ELSE last' = Event("GET", "respond", hdr, key, EmptyBody, 200,
                              <<Serialize(key, store[key])>>)

\* PUT up to the ownership check: the request answers, or is suspended before
\* it reads its body.
PUT_check(hdr, key) ==
    LET early == EarlyStatus(store, hdr, key)
    IN  /\ served < MaxReq
        /\ served' = served + 1
        /\ UNCHANGED <<store, nextKey, now, creator, deleted>>
        /\ IF early # 0
           THEN /\ last' = Event("PUT", "check", hdr, key, EmptyBody, early, <<>>)
                /\ UNCHANGED pending
           ELSE /\ FreeSlots # {}
                /\ pending' = [pending EXCEPT ![FirstFree] =
                        [op |-> "PUT", hdr |-> hdr, key |-> key, pc |-> "update",
                         body |-> EmptyBody]]
                /\ last' = Event("PUT", "check", hdr, key, EmptyBody, 0, <<>>)

\* A variant that converts every dueDate that is present: new Date(null) is
\* the epoch.
PrepareUpdates_dateOfNull(body) ==
    [f \in BodyFields |->
        IF f = "userId" THEN Undef
        ELSE IF f = "updatedAt" THEN Sentinel
        ELSE IF f = "dueDate" /\ body.dueDate = Null THEN DateV(0)
        ELSE IF f = "dueDate" /\ Truthy(body.dueDate) THEN NewDate(body.dueDate)
        ELSE body[f]]

\* The update object handed to the store: userId removed, updatedAt set,
\* a truthy dueDate made a Date.
PrepareUpdates(body) ==
    [f \in BodyFields |->
        IF f = "userId" THEN Undef
        ELSE IF f = "updatedAt" THEN Sentinel
        ELSE IF f = "dueDate" /\ Truthy(body.dueDate) THEN NewDate(body.dueDate)
        ELSE body[f]]

\* A variant that writes with set(updates, { merge: true }), which creates the
\* document when it is gone.
PUT_update_upsert(s, body) ==
    LET r == pending[s]
        updates == PrepareUpdates(body)
        old == IF r.key \in DOMAIN store THEN store[r.key]
               ELSE [f \in DocFields |-> Undef]
    IN  /\ r.op = "PUT" /\ r.pc = "update"
        /\ UNCHANGED <<nextKey, served, creator, deleted>>
        /\ IF ~Storable(updates)
           THEN /\ last' = Event("PUT", "update", r.hdr, r.key, body, 500, <<>>)
                /\ pending' = [pending EXCEPT ![s] = Idle]
                /\ UNCHANGED <<store, now>>
           ELSE \E t \in Clock :
                /\ now' = t
                /\ store' = (r.key :> FirestoreUpdate(old, updates, t)) @@ store
                /\ pending' = [pending EXCEPT ![s] = [r EXCEPT !.pc = "respond",
                                                               !.body = body]]
                /\ last' = Event("PUT", "update", r.hdr, r.key, body, 0, <<>>)

\* PUT from request.json() to todoRef.update(updates): update fails on a
\* document that is gone and on a value the store refuses.
PUT_update(s, body) ==
    LET r == pending[s]
        updates == PrepareUpdates(body)
    IN  /\ r.op = "PUT" /\ r.pc = "update"
        /\ UNCHANGED <<nextKey, served, creator, deleted>>
        /\ IF UpdateFails(store, r.key, updates)
           THEN /\ last' = Event("PUT", "update", r.hdr, r.key, body, 500, <<>>)
                /\ pending' = [pending EXCEPT ![s] = Idle]
                /\ UNCHANGED <<store, now>>
           ELSE \E t \in Clock :
                /\ now' = t
                /\ store' = UpdateDoc(store, r.key, updates, t)
                /\ pending' = [pending EXCEPT ![s] = [r EXCEPT !.pc = "respond",
                                                               !.body = body]]
                /\ last' = Event("PUT", "update", r.hdr, r.key, body, 0, <<>>)

\* PUT from todoRef.get() to the response.
PUT_respond(s) ==
    LET r == pending[s]
    IN  /\ r.op = "PUT" /\ r.pc = "respond"
        /\ UNCHANGED <<store, nextKey, now, served, creator, deleted>>
        /\ pending' = [pending EXCEPT ![s] = Idle]
        /\ IF r.key \notin DOMAIN store \/ ~CanSerialize(store[r.key])
           THEN last' = Event("PUT", "respond", r.hdr, r.key, r.body, 500, <<>>)
           ELSE last' = Event("PUT", "respond", r.hdr, r.key, r.body, 200,
                              <<Serialize(r.key, store[r.key])>>)

\* DELETE up to the ownership check.
DELETE_check(hdr, key) ==
    LET early == EarlyStatus(store, hdr, key)
    IN  /\ served < MaxReq
        /\ served' = served + 1
        /\ UNCHANGED <<store, nextKey, now, creator, deleted>>
        /\ IF early # 0
           THEN /\ last' = Event("DELETE", "check", hdr, key, EmptyBody, early, <<>>)
                /\ UNCHANGED pending
           ELSE /\ FreeSlots # {}
                /\ pending' = [pending EXCEPT ![FirstFree] =
                        [op |-> "DELETE", hdr |-> hdr, key |-> key, pc |-> "delete",
                         body |-> EmptyBody]]
                /\ last' = Event("DELETE", "check", hdr, key, EmptyBody, 0, <<>>)

\* DELETE from doc(id).delete() to the response; deleting a document that is
\* already gone succeeds.
DELETE_delete(s) ==
    LET r == pending[s]
    IN  /\ r.op = "DELETE" /\ r.pc = "delete"
        /\ UNCHANGED <<nextKey, now, served, creator>>
        /\ store' = FirestoreDelete(store, r.key)
        /\ deleted' = deleted \cup {r.key}
        /\ pending' = [pending EXCEPT ![s] = Idle]
        /\ last' = Event("DELETE", "delete", r.hdr, r.key, EmptyBody, 204, <<>>)

\* ----------------------------------------------------------------- spec
Next ==
    \/ \E hdr \in Headers : POST(hdr) /\ UNCHANGED clientVars
    \/ \E hdr \in Headers : GET_todos(hdr) /\ UNCHANGED clientVars
    \/ \E hdr \in Headers, key \in PathKeys : GET(hdr, key) /\ UNCHANGED clientVars
    \/ \E hdr \in Headers, key \in PathKeys :
            PUT_check(hdr, key) /\ UNCHANGED clientVars
    \/ \E s \in Slots, body \in PutBodies :
            PUT_update(s, body) /\ UNCHANGED clientVars
    \/ \E s \in Slots : PUT_respond(s) /\ UNCHANGED clientVars
    \/ \E hdr \in Headers, key \in PathKeys :
            DELETE_check(hdr, key) /\ UNCHANGED clientVars
    \/ \E s \in Slots : DELETE_delete(s) /\ UNCHANGED clientVars

Spec == Init /\ [][Next]_<<vars, clientVars>>

\* ------------------------------------------------ fetchAuthenticated
\* The user signs in, signs out, or the provider renews a user's ID token;
\* each can happen while a call of the helper awaits.
SignIn(u) ==
    /\ currentUser = NoUser
    /\ currentUser' = u
    /\ UNCHANGED <<idToken, fetchCall, request>>

SignOut ==
    /\ currentUser # NoUser
    /\ currentUser' = NoUser
    /\ UNCHANGED <<idToken, fetchCall, request>>

Refresh(u) ==
    /\ idToken[u] < MaxRefresh
    /\ idToken' = [idToken EXCEPT ![u] = @ + 1]
    /\ UNCHANGED <<currentUser, fetchCall, request>>

\* fetchAuthenticated up to await user.getIdToken(): it throws when nobody is
\* signed in.
fetchAuthenticated_start(options) ==
    /\ fetchCall.pc \in {"idle", "returned", "thrown"}
    /\ request' = NoRequest
    /\ fetchCall' =
          IF currentUser = NoUser
          THEN [pc |-> "thrown", user |-> NoUser, options |-> options,
                result |-> "Authentication required"]
          ELSE [pc |-> "getIdToken", user |-> currentUser, options |-> options,
                result |-> "none"]
    /\ UNCHANGED <<currentUser, idToken>>

\* From the token to fetch(url, { ...options, headers }).
fetchAuthenticated_fetch ==
    /\ fetchCall.pc = "getIdToken"
    /\ request' = [method |-> fetchCall.options.method,
                   headers |-> MergeHeaders(fetchCall.options.headers,
                                   Bearer(fetchCall.user, idToken[fetchCall.user]))]
    /\ fetchCall' = [fetchCall EXCEPT !.pc = "response"]
    /\ UNCHANGED <<currentUser, idToken>>

\* The statuses a response can have.
Statuses == {200, 201, 204, 400, 401, 403, 404, 500}

\* From the response to the result: an error for a status outside 200..299,
\* null for 204, the parsed body otherwise.
fetchAuthenticated_finish(status) ==
    /\ fetchCall.pc = "response"
    /\ fetchCall' =
          IF status < 200 \/ status > 299
          THEN [fetchCall EXCEPT !.pc = "thrown", !.result = "API error"]
          ELSE IF status = 204
          THEN [fetchCall EXCEPT !.pc = "returned", !.result = "null"]
          ELSE [fetchCall EXCEPT !.pc = "returned", !.result = "json"]
    /\ UNCHANGED <<currentUser, idToken, request>>

FetchNext ==
    \/ \E u \in Users : SignIn(u) /\ UNCHANGED vars
    \/ SignOut /\ UNCHANGED vars
    \/ \E u \in Users : Refresh(u) /\ UNCHANGED vars
    \/ \E options \in CallOptions : fetchAuthenticated_start(options) /\ UNCHANGED vars
    \/ fetchAuthenticated_fetch /\ UNCHANGED vars
    \/ \E status \in Statuses : fetchAuthenticated_finish(status) /\ UNCHANGED vars

SpecFetch == Init /\ [][FetchNext]_<<vars, clientVars>>

\* --------------------------------------------------------------- claims
\* The verified caller of the latest handler step.
Caller == getAuthenticatedUserUid(last.hdr)
Admitted == served' # served
UserIds == {Str(u) : u \in Users}

\* C1: whenever a caller with a valid token asks GET, PUT or DELETE for an
\* existing record whose userId is not the caller's verified uid, the request
\* is answered 403 at its ownership check: the response carries no record, the
\* store is unchanged and no write of that request is left to run.
C1_ForeignCallerForbidden ==
    [][ ( /\ Admitted
          /\ last'.op \in {"GET", "PUT", "DELETE"}
          /\ last'.hdr \in {<<"Bearer", "t1">>, <<"Bearer", "t2">>}
          /\ last'.key \in DOMAIN store
          /\ store[last'.key].userId # Str(verifyIdToken(last'.hdr[2])) )
        => ( /\ last'.status = 403
             /\ last'.payload = <<>>
             /\ store' = store
             /\ pending' = pending ) ]_vars

\* C1 witness: a DELETE by the other user on an existing record was answered 403.
C1_Witness ==
    /\ last.op = "DELETE" /\ last.status = 403
    /\ last.key \in DOMAIN store
    /\ store[last.key].userId \in UserIds
    /\ store[last.key].userId # Str(Caller)

\* C2: every stored record's userId is the userId it was created with.
C2_OwnerNeverChanges ==
    \A d \in DOMAIN store : store[d].userId = creator[d]

\* The header is absent, does not start with "Bearer ", or its token is one
\* the identity provider rejects.
HeaderRejected(hdr) ==
    \/ hdr = <<>>
    \/ hdr[1] # "Bearer"
    \/ hdr[2] \notin ValidTokens

\* C3: a request to any of the five operations with a rejected Authorization
\* header is answered 401 with no record, and leaves the store (and the
\* requests in flight) unchanged, whether or not the id names a record.
C3_Unauthorized ==
    [][ (Admitted /\ HeaderRejected(last'.hdr))
        => ( /\ last'.status = 401
             /\ last'.payload = <<>>
             /\ store' = store
             /\ nextKey' = nextKey
             /\ pending' = pending ) ]_vars

\* C3 witness: a DELETE of an existing record with an expired token was
\* answered 401.
C3_Witness ==
    /\ last.op = "DELETE" /\ last.status = 401
    /\ last.hdr = <<"Bearer", "expired">>
    /\ last.key \in DOMAIN store

\* The place of a response's createdAt in time: null before every instant.
RespInstant(v) == IF v.k = "string" THEN v.n + 1 ELSE 0

C5_InvalidCreateRejected ==
    [][ ( /\ Admitted
          /\ last'.op = "POST"
          /\ ~HeaderRejected(last'.hdr)
          /\ \/ last'.body.text \in {Undef, Str("")}
             \/ /\ last'.body.completed # Undef
                /\ last'.body.completed.k # "boolean" )
        => ( /\ last'.status = 400
             /\ store' = store
             /\ nextKey' = nextKey ) ]_vars

\* C5 witness: a POST with completed null was answered 400 while a record
\* was stored.
C5_Witness ==
    /\ last.op = "POST" /\ last.status = 400
    /\ last.body.completed = Null
    /\ store # << >>

\* C6: the record a POST answered 201 for is stored with the caller's
\* verified uid as userId, and the response says so.
C6_CreatedForCaller ==
    (last.op = "POST" /\ last.status = 201) =>
        /\ last.key \in DOMAIN store
        /\ store[last.key].userId = Str(verifyIdToken(last.hdr[2]))
        /\ last.payload[1].userId = Str(verifyIdToken(last.hdr[2]))

\* C6 witness: u1 created a record with a body that names u2 as userId.
C6_Witness ==
    /\ last.op = "POST" /\ last.status = 201
    /\ last.hdr = <<"Bearer", "t1">>
    /\ last.body.userId = Str("u2")

\* C7: the owner's DELETE of an existing record passes the ownership check;
\* the DELETE answers 204 with no body and the record is gone; a GET with a
\* valid token on an id a DELETE answered 204 for is answered 404.
C7_DeleteThenNotFound ==
    /\ ( /\ last.op = "DELETE" /\ last.step = "check"
         /\ ~HeaderRejected(last.hdr)
         /\ last.key \in DOMAIN store
         /\ store[last.key].userId = Str(verifyIdToken(last.hdr[2])) )
       => last.status = 0
    /\ (last.op = "DELETE" /\ last.step = "delete")
       => ( /\ last.status = 204
            /\ last.payload = <<>>
            /\ last.key \notin DOMAIN store )
    /\ (last.op = "GET" /\ ~HeaderRejected(last.hdr) /\ last.key \in deleted)
       => last.status = 404

\* C7 witness: a GET with a valid token on a deleted id was answered 404.
C7_Witness ==
    /\ last.op = "GET" /\ last.status = 404
    /\ ~HeaderRejected(last.hdr)
    /\ last.key \in deleted

\* The PUT in slot s has its update applied in this step.
Updated(s) ==
    /\ pending[s].op = "PUT" /\ pending[s].pc = "update"
    /\ pending'[s].pc = "respond"

\* C8: a PUT whose update is applied with dueDate null leaves the record's
\* dueDate null, and a GET of it reports null; one whose body has no dueDate
\* key leaves the stored dueDate as it was.
C8_DueDateClearedOrKept ==
    [][ \A s \in Slots : Updated(s) =>
          LET d == pending[s].key
              body == pending'[s].body
          IN  /\ body.dueDate = Null =>
                    /\ store'[d].dueDate = Null
                    /\ Serialize(d, store'[d]).dueDate = Null
              /\ body.dueDate = Undef => store'[d].dueDate = store[d].dueDate ]_vars

\* C8 witness: a PUT with dueDate null answered 200 with dueDate null for a
\* record that was created with a due date (the one body that sets a
\* priority sets a due date too).
C8_Witness ==
    /\ last.op = "PUT" /\ last.status = 200
    /\ last.body.dueDate = Null
    /\ last.payload[1].dueDate = Null
    /\ last.payload[1].priority = Str("high")

\* C9: the id in every record of a read-one, update-one or list response is
\* the key the record is stored under.
C9_IdIsDocumentKey ==
    (last.op \in {"GET", "PUT", "LIST"} /\ last.status = 200) =>
        \A i \in 1..Len(last.payload) : last.payload[i].id = last.payload[i].docKey

\* An ISO-8601 text, null, or no value at all.
TextualTimestamp(v) == v = Undef \/ v = Null \/ (v.k = "string" /\ v.s = "iso")

\* C10: in every success response that carries records, createdAt, updatedAt
\* and dueDate are ISO-8601 texts, null or absent.
C10_TimestampsAreText ==
    (last.status \in {200, 201}) =>
        \A i \in 1..Len(last.payload) :
            \A f \in TimeFields : TextualTimestamp(last.payload[i][f])

\* The helper issues its request in this step.
Issues == request = NoRequest /\ request' # NoRequest

C12_TextAndCompletedValid ==
    \A d \in DOMAIN store :
        /\ store[d].text.k = "string" /\ store[d].text # Str("")
        /\ store[d].completed.k = "boolean"

\* C13: no step changes the createdAt of a stored record.
C13_CreatedAtNeverChanges ==
    [][ \A d \in DOMAIN store \cap DOMAIN store' :
            store'[d].createdAt = store[d].createdAt ]_<<vars, clientVars>>

\* The PUT in slot s runs its write in this step, on a document that is gone.
WritesAfterDelete(s) ==
    /\ pending[s].op = "PUT" /\ pending[s].pc = "update"
    /\ pending[s].key \notin DOMAIN store
    /\ pending'[s] # pending[s]

\* C14: a key that was assigned and is no longer in the store never comes
\* back; a PUT that passed its ownership check and writes after the record
\* was deleted changes nothing and answers 500, never 200.
C14_DeletedStaysDeleted ==
    [][ /\ \A d \in 1..(nextKey - 1) :
              d \notin DOMAIN store => d \notin DOMAIN store'
        /\ \A s \in Slots : WritesAfterDelete(s) =>
              /\ store' = store
              /\ pending'[s] = Idle
              /\ last'.op = "PUT" /\ last'.status = 500
        /\ (last'.op = "PUT" /\ last'.status = 200) => last'.key \in DOMAIN store'
      ]_<<vars, clientVars>>

\* C14 witness: a PUT with an empty body, suspended after its ownership check,
\* wrote after a DELETE answered 204 for its record, and answered 500.
C14_Witness ==
    /\ last.op = "PUT" /\ last.step = "update" /\ last.status = 500
    /\ last.body = EmptyBody
    /\ last.key \in deleted

====
